---- MODULE Spec2Model ----
(***************************************************************************)
(* Model of src/github-actions/main.py: one execution of                   *)
(* Runner.trigger_and_wait against the GitHub Actions API.                 *)
(*                                                                         *)
(* The client is a single thread; its position is pc.  The remote side     *)
(* (run creation, run progress, approval gates, human approvals) moves     *)
(* between any two client steps.  Every API response may be a failure;     *)
(* the number of failing responses in one execution is bounded by          *)
(* MaxFaults.  Python's None is NoneVal, a missing dict key is NoneVal     *)
(* too (dict.get), a name that is not a key of the cache is NotCached.     *)
(***************************************************************************)
EXTENDS Integers, Sequences, FiniteSets, TLC

\* ---------------------------------------------------------------- bounds
MaxPrior == 1      \* runs of the workflow that exist before the dispatch
MaxListed == 2     \* the same, where trigger_workflow is checked on its own
MaxFaults == 1     \* failing API responses in one execution
MaxAttempt == 3    \* the attempt counters (log output only) saturate here
MaxRaw == 2        \* raw records in one response, where the normalisation
                   \* is checked on its own
MaxName == 2       \* characters in a workflow file name
MaxWorkflows == 2  \* workflows in the repository

\* ------------------------------------------------------- program constants
PerPage == 10
NoneVal == -1
NotCached == -2
ExcStatus == 0     \* a requests.RequestException instead of a response

\* the heads of the repository's branches: branch name and commit hash
Heads == { <<"main", "s1">>, <<"dev", "s2">> }
\* a requested ref is a branch name or a commit hash
Refs == {"main", "s2"}

DispatchStatuses == {200, 201, 204, 422, ExcStatus}
ReadStatuses == {200, 500, ExcStatus}
PostStatuses == {200, 201, 202, 204, 403, ExcStatus}

\* the repository's environments, as GET .../environments lists them
Environments == << [name |-> "A", id |-> 1], [name |-> "B", id |-> 2] >>
Names == {"A", "B", "X"}
NameChoices == { <<>>, <<"A">>, <<"A", "B">>, <<"X", "A">> }

\* raw pending-deployment records: flat environment_id, nested environment.id
RawA == [flat |-> 1, nested |-> NoneVal]
RawB == [flat |-> NoneVal, nested |-> 2]
RawPDs == {RawA, RawB}
GateChoices == { <<RawA>>, <<RawB>>, <<RawA, RawB>> }

JobWaiting == [status |-> "waiting", conclusion |-> "none"]
JobQueued == [status |-> "queued", conclusion |-> "none"]
JobRunning == [status |-> "in_progress", conclusion |-> "none"]
JobChoices == { <<>>, <<JobRunning, JobQueued>>, <<JobWaiting>> }

NoRun == [id |-> NoneVal, head_branch |-> "", head_sha |-> "",
          status |-> "", conclusion |-> "none"]

\* ------------------------------------------------------------ pure helpers
Min(S) == CHOOSE x \in S : \A y \in S : x <= y

Range(s) == { s[i] : i \in 1..Len(s) }

\* Python truthiness of an optional integer: None and 0 are falsy
Truthy(x) == x # NoneVal /\ x # 0

RECURSIVE SortedSeq(_)
SortedSeq(S) == IF S = {} THEN <<>> ELSE <<Min(S)>> \o SortedSeq(S \ {Min(S)})

\* the first per_page entries of the workflow's run list, most recent first
Listing(rs) == SubSeq(rs, 1, IF Len(rs) < PerPage THEN Len(rs) ELSE PerPage)

\* a slip in the matching loop: the most recent run whatever its ref
FindLatest_FallbackOnly(listing, r) ==
    IF Len(listing) > 0 THEN listing[1] ELSE NoRun

\* a slip in line 211: no fallback to the most recent run
FindLatest_NoFallback(listing, r) ==
    LET matches == { i \in 1..Len(listing) :
                       listing[i].head_branch = r \/ listing[i].head_sha = r }
    IN  IF matches # {} THEN listing[Min(matches)] ELSE NoRun

\* _find_latest_run_for_workflow on a 200 response
FindLatest(listing, r) ==
    LET matches == { i \in 1..Len(listing) :
                       listing[i].head_branch = r \/ listing[i].head_sha = r }
    IN  IF matches # {} THEN listing[Min(matches)]
        ELSE IF Len(listing) > 0 THEN listing[1]
        ELSE NoRun

\* _find_latest_run_for_workflow: a non-200 response yields None (a
\* transport exception is not caught here, see TwList)
FindLatestRunForWorkflow(status, rs, r) ==
    IF status # 200 THEN NoRun ELSE FindLatest(Listing(rs), r)

\* get_run: the run the remote side holds under this id
RunById(rs, id) ==
    IF \E i \in 1..Len(rs) : rs[i].id = id
    THEN rs[CHOOSE i \in 1..Len(rs) : rs[i].id = id]
    ELSE NoRun

\* list_jobs_for_run: [] on a non-200 response
ListJobsForRun(status, js) == IF status # 200 THEN <<>> ELSE js

\* the waiting_jobs comprehension of trigger_and_wait
WaitingJobs(js) ==
    SelectSeq(js, LAMBDA j : j.status \in {"waiting", "queued"}
                             /\ j.conclusion = "none")

\* the normalisation loop of list_pending_deployments, one record:
\* env_id is flat `or` nested; the copy keeps its own environment_id key
\* unless env_id is truthy
NormalizePD(pd) ==
    LET env_id == IF Truthy(pd.flat) THEN pd.flat ELSE pd.nested
    IN  [flat |-> pd.flat, nested |-> pd.nested,
         environment_id |-> IF Truthy(env_id) THEN env_id ELSE pd.flat]

\* list_pending_deployments: [] on a transport exception or a non-200
ListPendingDeployments(status, pds) ==
    IF status = ExcStatus \/ status # 200 THEN <<>>
    ELSE [i \in 1..Len(pds) |-> NormalizePD(pds[i])]

\* pending_env_ids of approve_run: the truthy environment_id values
PendingEnvIds(pending) ==
    LET kept == SelectSeq(pending, LAMBDA pd : Truthy(pd.environment_id))
    IN  [i \in 1..Len(kept) |-> kept[i].environment_id]

\* a slip in line 301: every pending id is approved
AllowedToApprove_All(pending_env_ids, allowed_ids) == pending_env_ids

\* allowed_to_approve of approve_run
AllowedToApprove(pending_env_ids, allowed_ids) ==
    SelectSeq(pending_env_ids, LAMBDA eid : eid \in Range(allowed_ids))

\* a slip in line 312: only 204 counts as accepted
PostAccepted_Only204(status) == status = 204

\* approve_run takes the approval POST for accepted on these statuses
\* (line 312)
PostAccepted(status) == status \in {200, 201, 202, 204}

\* the API accepted the approval: any 2xx status
ApiAccepted(status) == status \in 200..299

\* a slip in line 302: the POST is sent whenever a token is configured
ApBranch_TokenOnly(allowed, token) ==
    IF token THEN "ap_post" ELSE "mw_list"

\* a slip in line 302: the POST is sent without looking at the token
ApBranch_AllowedOnly(allowed, token) ==
    IF allowed # <<>> THEN "ap_post" ELSE "mw_list"

\* where approve_run goes after the pending ids are evaluated (lines 302, 331)
ApBranch(allowed, token) ==
    IF allowed # <<>> /\ token THEN "ap_post" ELSE "mw_list"

\* an attempt cap in the resolution loop
AfterListing_GiveUp(found, att) ==
    IF found # NoRun THEN "m_get"
    ELSE IF att >= 1 THEN "raised" ELSE "tw_sleep"

\* where trigger_workflow goes after a listing (lines 193-198): it returns
\* the run it found, or sleeps and lists again, whatever the attempt count
AfterListing(found, att) ==
    IF found # NoRun THEN "m_get" ELSE "tw_sleep"

\* ---------------------------------------------------- environment resolver
EmptyCache == [n \in Names |-> NotCached]

\* id of the first listed environment with this name, None when there is none
FoundId(envs, name) ==
    LET hits == { i \in 1..Len(envs) : envs[i].name = name }
    IN  IF hits = {} THEN NoneVal ELSE envs[Min(hits)].id

\* a resolver without lines 367 and 372: a failed listing leaves no entry
GetEnvironmentIdByName_NoFailureEntry(c, name, status) ==
    IF name = "" THEN [cache |-> c, id |-> NoneVal, listed |-> FALSE]
    ELSE IF c[name] # NotCached
    THEN [cache |-> c, id |-> c[name], listed |-> FALSE]
    ELSE IF status = ExcStatus \/ status # 200
    THEN [cache |-> c, id |-> NoneVal, listed |-> TRUE]
    ELSE [cache |-> [c EXCEPT ![name] = FoundId(Environments, name)],
          id |-> FoundId(Environments, name), listed |-> TRUE]

\* a resolver that caches only the ids it found
GetEnvironmentIdByName_FoundOnly(c, name, status) ==
    IF name = "" THEN [cache |-> c, id |-> NoneVal, listed |-> FALSE]
    ELSE IF c[name] # NotCached
    THEN [cache |-> c, id |-> c[name], listed |-> FALSE]
    ELSE IF status = ExcStatus \/ status # 200
    THEN [cache |-> c, id |-> NoneVal, listed |-> TRUE]
    ELSE [cache |-> IF FoundId(Environments, name) = NoneVal THEN c
                    ELSE [c EXCEPT ![name] = FoundId(Environments, name)],
          id |-> FoundId(Environments, name), listed |-> TRUE]

\* get_environment_id_by_name; listed tells whether the listing was requested
GetEnvironmentIdByName(c, name, status) ==
    IF name = "" THEN [cache |-> c, id |-> NoneVal, listed |-> FALSE]
    ELSE IF c[name] # NotCached
    THEN [cache |-> c, id |-> c[name], listed |-> FALSE]
    ELSE IF status = ExcStatus \/ status # 200
    THEN [cache |-> [c EXCEPT ![name] = NoneVal], id |-> NoneVal,
          listed |-> TRUE]
    ELSE [cache |-> [c EXCEPT ![name] = FoundId(Environments, name)],
          id |-> FoundId(Environments, name), listed |-> TRUE]

\* the cache inverted: a name cached under this id, "" when there is none
NameOfId(c, id) ==
    IF \E n \in Names : c[n] = id THEN CHOOSE n \in Names : c[n] = id ELSE ""

\* get_environment_name_by_id
GetEnvironmentNameById(c, id, status) ==
    IF \E n \in Names : c[n] = id
    THEN [cache |-> c, name |-> NameOfId(c, id), listed |-> FALSE]
    ELSE IF status = ExcStatus \/ status # 200
    THEN [cache |-> c, name |-> "", listed |-> TRUE]
    ELSE LET c2 == [n \in Names |->
                      IF \E i \in 1..Len(Environments) : Environments[i].name = n
                      THEN Environments[CHOOSE i \in 1..Len(Environments) :
                              /\ Environments[i].name = n
                              /\ \A j \in 1..Len(Environments) :
                                   Environments[j].name = n => j <= i].id
                      ELSE c[n]]
         IN  [cache |-> c2, name |-> NameOfId(c2, id), listed |-> TRUE]

\* _map_ids_to_names: the cache after the loop and the number of listing
\* requests that failed; sts[i] is the response to the listing for ids[i]
RECURSIVE MapIdsToNames(_, _, _)
MapIdsToNames(c, ids, sts) ==
    IF ids = <<>> THEN [cache |-> c, fails |-> 0]
    ELSE LET r == GetEnvironmentNameById(c, Head(ids), Head(sts))
             rest == MapIdsToNames(r.cache, Tail(ids), Tail(sts))
         IN  [cache |-> rest.cache,
              fails |-> rest.fails
                        + (IF r.listed /\ Head(sts) # 200 THEN 1 ELSE 0)]

\* ------------------------------------------------------- workflow files
\* a string is the sequence of its characters
Digits == {"0", "1", "2", "3", "4", "5", "6", "7", "8", "9"}

\* str.isdigit
IsDigit(str) == str # <<>> /\ \A i \in 1..Len(str) : str[i] \in Digits

\* a workflow configured by its numeric id
NumericFile == <<"7">>

\* str.endswith
EndsWith(str, suffix) ==
    /\ Len(suffix) <= Len(str)
    /\ SubSeq(str, Len(str) - Len(suffix) + 1, Len(str)) = suffix

\* file names: the strings over two letters, up to MaxName characters
FileNames == UNION { [1..n -> {"a", "b"}] : n \in 1..MaxName }

\* the directory the repository's workflow files live in
WorkflowDir == <<"w", "/">>

\* a listed workflow's path: the directory and a file name, or the empty
\* string that wf.get("path", "") gives for a descriptor without a path
WorkflowPaths == {<<>>} \cup { WorkflowDir \o n : n \in FileNames }

\* the listings: the i-th listed workflow has id 10 + i
WorkflowListings ==
    UNION { { [i \in 1..n |-> [path |-> ps[i], id |-> 10 + i]] :
                ps \in [1..n -> WorkflowPaths] } : n \in 0..MaxWorkflows }

\* get_workflow_id_by_filename on a response: None on a non-200 status,
\* otherwise the id of the first listed workflow whose path ends with the
\* file name, None when there is none
GetWorkflowIdByFilename(status, wfs, file) ==
    LET hits == { i \in 1..Len(wfs) : EndsWith(wfs[i].path, file) }
    IN  IF status # 200 THEN NoneVal
        ELSE IF hits = {} THEN NoneVal
        ELSE wfs[Min(hits)].id

\* ------------------------------------------------------------------- state
VARIABLES
    runs,               \* remote: the workflow's runs, most recent first
    toCreate,           \* remote: a dispatch was accepted, its run not yet created
    createdId,          \* remote: id of the run the dispatch created, 0 before
    remoteJobs,         \* remote: jobs of the run the client monitors
    remotePending,      \* remote: raw pending deployments of that run
    ref,                \* config: workflow.ref or default_ref
    auto_approve,       \* config: workflow.auto_approve
    configured_names,   \* config: workflow.auto_approve_env_names
    repo_token,         \* config: a repo-scoped token is configured
    pc,                 \* the client's position
    attempt,            \* trigger_workflow: attempt (saturates at MaxAttempt)
    run_id,             \* trigger_and_wait: run_id, 0 before it is resolved
    run,                \* trigger_and_wait: run, the last get_run response
    waiting_jobs,       \* trigger_and_wait: waiting_jobs, from its
                        \* computation (line 473) to its use (line 484)
    approval_attempted, \* trigger_and_wait: approval_attempted
    cache,              \* client: _env_name_cache
    ap_run_id,          \* approve_run: its run_id parameter
    todo_names,         \* approve_run: configured names not yet resolved
    resolved_ids,       \* approve_run: resolved_ids
    auto_allowed_ids,   \* approve_run: auto_allowed_ids
    pending,            \* approve_run: pending, the last listing it fetched
    allowed_to_approve, \* approve_run: allowed_to_approve
    result,             \* what trigger_and_wait returned
    error,              \* the exception that ended trigger_and_wait, or "none"
    priorIds,           \* history: ids in the run list when dispatch was called
    faults,             \* history: failing responses so far
    postCount,          \* history: approval POSTs issued
    acceptedCount,      \* history: approval POSTs the API accepted
    approveCalls,       \* history: invocations of approve_run
    lastCall,           \* history: the last request or sleep, the run id in
                        \* its url and the environment_ids of its payload
    lastStatus,         \* history: the status of the response to the last
                        \* request, ExcStatus for a transport exception
    lookup,             \* history: the last get_environment_id_by_name call
    ok,                 \* trigger_and_wait: ok, what approve_run returned
    workflows,          \* remote: the repository's workflows, as listed
    workflow_file,      \* config: workflow.file, a file name or a numeric id
    workflow_id         \* what get_workflow_id_by_filename returned

vars == << runs, toCreate, createdId, remoteJobs, remotePending, ref,
           auto_approve, configured_names, repo_token, pc, attempt, run_id,
           run, waiting_jobs, approval_attempted, cache,
           ap_run_id, todo_names, resolved_ids, auto_allowed_ids, pending,
           allowed_to_approve, result, error, priorIds, faults, postCount,
           acceptedCount, approveCalls, lastCall, lastStatus, lookup, ok,
           workflows, workflow_file, workflow_id >>

remoteVars == << runs, toCreate, createdId, remoteJobs, remotePending >>
configVars == << ref, auto_approve, configured_names, repo_token >>
workflowVars == << workflows, workflow_file, workflow_id >>
monitorVars == << run, waiting_jobs, approval_attempted, ok >>
approveVars == << ap_run_id, todo_names, resolved_ids, auto_allowed_ids,
                  pending, allowed_to_approve >>
postVars == << postCount, acceptedCount >>

Call(op, id) == [op |-> op, run |-> id, environment_ids |-> <<>>]

\* no get_environment_id_by_name call yet
NoLookup == [name |-> "", id |-> NoneVal, listed |-> FALSE]

\* a run that existed before the dispatch, and has completed
PriorRun(id, h) ==
    [id |-> id, head_branch |-> h[1], head_sha |-> h[2],
     status |-> "completed", conclusion |-> "success"]

PriorRuns(id) == { PriorRun(id, h) : h \in Heads }

\* run histories of n runs, ids n..1 from the most recent to the oldest
RECURSIVE Histories(_)
Histories(n) ==
    IF n = 0 THEN { <<>> }
    ELSE { <<r>> \o h : r \in PriorRuns(n), h \in Histories(n - 1) }

\* Config.load refuses a configuration without a repo token (lines 82-88);
\* tokens is the set of values repo_token may take
InitBase(tokens, prior) ==
    /\ runs \in UNION { Histories(n) : n \in 0..prior }
    /\ toCreate = FALSE
    /\ createdId = 0
    /\ remoteJobs = <<>>
    /\ remotePending = <<>>
    /\ ref \in Refs
    /\ auto_approve \in BOOLEAN
    /\ configured_names \in NameChoices
    /\ repo_token \in tokens
    /\ pc = "dispatch"
    /\ attempt = 0
    /\ run_id = 0
    /\ run = NoRun
    /\ waiting_jobs = <<>>
    /\ approval_attempted = FALSE
    /\ cache = EmptyCache
    /\ ap_run_id = 0
    /\ todo_names = <<>>
    /\ resolved_ids = <<>>
    /\ auto_allowed_ids = <<>>
    /\ pending = <<>>
    /\ allowed_to_approve = <<>>
    /\ result = NoRun
    /\ error = "none"
    /\ priorIds = {}
    /\ faults = 0
    /\ postCount = 0
    /\ acceptedCount = 0
    /\ approveCalls = 0
    /\ lastCall = Call("none", 0)
    /\ lastStatus = NoneVal
    /\ lookup = NoLookup
    /\ ok = "none"

\* the workflow is configured by its numeric id; nothing is looked up
InitWith(tokens, prior) ==
    /\ InitBase(tokens, prior)
    /\ workflows = <<>>
    /\ workflow_file = NumericFile
    /\ workflow_id = NoneVal

Init == InitWith({TRUE}, MaxPrior)

\* a response with this status is a failure that the fault budget allows
Fault(status, good) == IF status \in good THEN 0 ELSE 1

\* ------------------------------------------------------- trigger_workflow
\* the exception of a request that nothing catches: a transport exception,
\* or the HTTPError of raise_for_status on a 4xx or 5xx status
Raised(status) ==
    IF status = ExcStatus THEN "RequestException"
    ELSE IF status >= 400 THEN "HTTPError"
    ELSE "none"

\* the dispatch POST: any status but 201 and 204 goes to raise_for_status.
\* It is sent once the workflow is known by id: configured as a numeric id
\* (line 169) or resolved from its file name (lines 170-172).
Dispatch ==
    /\ pc = "dispatch"
    /\ IsDigit(workflow_file) \/ Truthy(workflow_id)
    /\ \E st \in DispatchStatuses :
         /\ priorIds' = { runs[i].id : i \in 1..Len(runs) }
         /\ lastCall' = Call("dispatch", 0)
         /\ lastStatus' = st
         /\ IF st = ExcStatus \/ (st \notin {201, 204} /\ Raised(st) # "none")
            THEN pc' = "raised" /\ error' = Raised(st) /\ toCreate' = FALSE
            ELSE pc' = "tw_grace" /\ error' = error /\ toCreate' = TRUE
    /\ UNCHANGED << runs, createdId, remoteJobs, remotePending, configVars, workflowVars,
                    attempt, run_id, monitorVars, cache, approveVars, result,
                    faults, postVars, approveCalls,
                    lookup >>

\* a trigger_workflow without line 186: the polling starts at once
TwGrace_NoSleep ==
    /\ pc = "tw_grace"
    /\ pc' = "tw_list"
    /\ UNCHANGED << remoteVars, configVars, workflowVars, attempt, run_id, monitorVars,
                    cache, approveVars, result, error, priorIds, faults, postVars,
                    approveCalls, lastCall, lastStatus, lookup >>

\* time.sleep after the dispatch (line 186)
TwGrace ==
    /\ pc = "tw_grace"
    /\ pc' = "tw_list"
    /\ lastCall' = Call("sleep", 0)
    /\ UNCHANGED << remoteVars, configVars, workflowVars, attempt, run_id, monitorVars,
                    cache, approveVars, result, error, priorIds, faults, postVars,
                    approveCalls, lastStatus, lookup >>

\* one iteration of the resolution loop up to its return or its sleep; a
\* transport exception of the listing request is caught nowhere.
\* Run ids are positive, so the `if not run_id` branch of trigger_and_wait
\* (lines 446-450) is never taken and the monitor starts with this id and
\* its own attempt = 0 (line 453; the monitor's attempt is only logged).
TwList ==
    /\ pc = "tw_list"
    /\ lastCall' = Call("listRuns", 0)
    /\ \E st \in ReadStatuses :
         /\ lastStatus' = st
         /\ IF st = ExcStatus
            THEN /\ pc' = "raised"
                 /\ error' = Raised(st)
                 /\ UNCHANGED << faults, run_id, attempt >>
            ELSE LET found == FindLatestRunForWorkflow(st, runs, ref)
                 IN  /\ faults + Fault(st, {200}) <= MaxFaults
                     /\ faults' = faults + Fault(st, {200})
                     /\ pc' = AfterListing(found, attempt)
                     /\ error' = error
                     /\ IF found # NoRun
                        THEN run_id' = found.id /\ attempt' = 0
                        ELSE /\ run_id' = run_id
                             /\ attempt' = IF attempt < MaxAttempt
                                           THEN attempt + 1 ELSE attempt
    /\ UNCHANGED << remoteVars, configVars, workflowVars, monitorVars, cache, approveVars,
                    result, priorIds, postVars, approveCalls,
                    lookup >>

\* time.sleep at the end of a resolution iteration (line 198)
TwSleep ==
    /\ pc = "tw_sleep"
    /\ pc' = "tw_list"
    /\ lastCall' = Call("sleep", 0)
    /\ UNCHANGED << remoteVars, configVars, workflowVars, attempt, run_id, monitorVars,
                    cache, approveVars, result, error, priorIds, faults, postVars,
                    approveCalls, lastStatus, lookup >>

\* ------------------------------------------------ remote side, per run id
JobsOf(id) == IF id = run_id THEN remoteJobs ELSE <<>>
PendingOf(id) == IF id = run_id THEN remotePending ELSE <<>>

\* ------------------------------------------------------- trigger_and_wait
\* a get_run that is best-effort: a failure leaves the run as it was last
\* seen and the monitor goes on
MGetRun_BestEffort ==
    /\ pc = "m_get"
    /\ \E st \in ReadStatuses :
         /\ lastCall' = Call("getRun", run_id)
         /\ lastStatus' = st
         /\ run' = IF Raised(st) = "none" THEN RunById(runs, run_id) ELSE run
    /\ pc' = "m_check"
    /\ UNCHANGED << remoteVars, configVars, workflowVars, attempt, run_id, waiting_jobs,
                    approval_attempted, ok, cache, approveVars, result, error,
                    priorIds, faults, postVars, approveCalls, lookup >>

\* get_run (line 457); a transport exception or the HTTPError of
\* raise_for_status ends the execution
MGetRun ==
    /\ pc = "m_get"
    /\ \E st \in ReadStatuses :
         /\ lastCall' = Call("getRun", run_id)
         /\ lastStatus' = st
         /\ IF Raised(st) = "none"
            THEN run' = RunById(runs, run_id) /\ pc' = "m_check"
                 /\ error' = error
            ELSE run' = run /\ pc' = "raised" /\ error' = Raised(st)
    /\ UNCHANGED << remoteVars, configVars, workflowVars, attempt, run_id, waiting_jobs,
                    approval_attempted, ok, cache, approveVars, result, priorIds,
                    faults, postVars, approveCalls,
                    lookup >>

\* a slip in line 463: only a successful run ends the monitor
MCheck_SuccessOnly ==
    /\ pc = "m_check"
    /\ IF run.status = "completed" /\ run.conclusion = "success"
       THEN result' = run /\ pc' = "done"
       ELSE result' = result /\ pc' = "m_jobs"
    /\ UNCHANGED << remoteVars, configVars, workflowVars, attempt, run_id, monitorVars,
                    cache, approveVars, error, priorIds, faults, postVars,
                    approveCalls, lastCall,
                    lastStatus, lookup >>

\* the status test of lines 458-465
MCheck ==
    /\ pc = "m_check"
    /\ IF run.status = "completed"
       THEN result' = run /\ pc' = "done"
       ELSE result' = result /\ pc' = "m_jobs"
    /\ UNCHANGED << remoteVars, configVars, workflowVars, attempt, run_id, monitorVars,
                    cache, approveVars, error, priorIds, faults, postVars,
                    approveCalls, lastCall,
                    lastStatus, lookup >>

\* list_jobs_for_run, the except clause around it that turns an exception
\* into [], and the waiting_jobs filter (lines 468-476)
MListJobs ==
    /\ pc = "m_jobs"
    /\ \E st \in ReadStatuses :
         LET jobs == IF st = ExcStatus THEN <<>>
                     ELSE ListJobsForRun(st, JobsOf(run_id))
         IN  /\ faults + Fault(st, {200}) <= MaxFaults
             /\ faults' = faults + Fault(st, {200})
             /\ waiting_jobs' = WaitingJobs(jobs)
             /\ lastStatus' = st
    /\ pc' = "m_pending"
    /\ lastCall' = Call("listJobs", run_id)
    /\ UNCHANGED << remoteVars, configVars, workflowVars, attempt, run_id, run,
                    approval_attempted, ok, cache, approveVars, result, error,
                    priorIds,
                    postVars, approveCalls,
                    lookup >>

\* a slip in line 489: the guard is not consulted
ShouldApprove_NoGuard(wj, pds, enabled, attempted) ==
    (wj # <<>> \/ pds # <<>>) /\ enabled

\* a slip in line 489: the enable flag is not consulted
ShouldApprove_NoFlag(wj, pds, enabled, attempted) ==
    (wj # <<>> \/ pds # <<>>) /\ ~attempted

\* the guard of lines 484 and 489
ShouldApprove(wj, pds, enabled, attempted) ==
    (wj # <<>> \/ pds # <<>>) /\ enabled /\ ~attempted

\* list_pending_deployments and the decision of lines 479-500: either the
\* call of approve_run(run_id) or the way to the sleep of line 503
MListPending ==
    /\ pc = "m_pending"
    /\ \E st \in ReadStatuses :
         LET pending_deployments ==
               ListPendingDeployments(st, PendingOf(run_id))
         IN  /\ faults + Fault(st, {200}) <= MaxFaults
             /\ faults' = faults + Fault(st, {200})
             /\ lastStatus' = st
             /\ IF ShouldApprove(waiting_jobs, pending_deployments,
                                 auto_approve, approval_attempted)
                THEN /\ pc' = "ap_resolve"
                     /\ ap_run_id' = run_id
                     /\ todo_names' = configured_names
                     /\ resolved_ids' = <<>>
                     /\ approveCalls' = approveCalls + 1
                ELSE /\ pc' = "m_sleep"
                     /\ UNCHANGED << ap_run_id, todo_names, resolved_ids,
                                     approveCalls >>
    /\ lastCall' = Call("listPendingDeployments", run_id)
    /\ waiting_jobs' = <<>>
    /\ UNCHANGED << remoteVars, configVars, workflowVars, attempt, run_id, run,
                    approval_attempted, ok, cache, auto_allowed_ids, pending,
                    allowed_to_approve, result, error, priorIds, postVars,
                    lookup >>

\* a monitor that resolves the run again before every iteration
MSleep_Reresolve ==
    /\ pc = "m_sleep"
    /\ pc' = "tw_list"
    /\ lastCall' = Call("sleep", 0)
    /\ UNCHANGED << remoteVars, configVars, workflowVars, attempt, run_id, monitorVars,
                    cache, approveVars, result, error, priorIds, faults, postVars,
                    approveCalls, lastStatus, lookup >>

\* time.sleep at the end of a monitor iteration (line 503)
MSleep ==
    /\ pc = "m_sleep"
    /\ pc' = "m_get"
    /\ lastCall' = Call("sleep", 0)
    /\ UNCHANGED << remoteVars, configVars, workflowVars, attempt, run_id, monitorVars,
                    cache, approveVars, result, error, priorIds, faults, postVars,
                    approveCalls, lastStatus, lookup >>

\* ------------------------------------------------------------ approve_run
\* the responses to the environment listings of one _map_ids_to_names call
ListingStatuses(ids) == [1..Len(ids) -> ReadStatuses]

\* a slip in line 274: the id is kept whatever it is
AppendResolved_Any(resolved, eid) == Append(resolved, eid)

\* lines 274-277: an id is kept when it is truthy, the name is only logged
\* otherwise
AppendResolved(resolved, eid) ==
    IF Truthy(eid) THEN Append(resolved, eid) ELSE resolved

\* one iteration of the name loop (lines 272-277)
ApResolveName ==
    /\ pc = "ap_resolve"
    /\ todo_names # <<>>
    /\ \E st \in ReadStatuses :
         LET r == GetEnvironmentIdByName(cache, Head(todo_names), st)
             f == IF r.listed THEN Fault(st, {200}) ELSE 0
         IN  /\ faults + f <= MaxFaults
             /\ faults' = faults + f
             /\ cache' = r.cache
             /\ resolved_ids' = AppendResolved(resolved_ids, r.id)
             /\ lookup' = [name |-> Head(todo_names), id |-> r.id,
                           listed |-> r.listed]
             /\ lastCall' = IF r.listed THEN Call("listEnvironments", 0)
                            ELSE lastCall
             /\ lastStatus' = IF r.listed THEN st ELSE lastStatus
    /\ todo_names' = Tail(todo_names)
    /\ UNCHANGED << remoteVars, configVars, workflowVars, pc, attempt, run_id, monitorVars,
                    ap_run_id, auto_allowed_ids, pending, allowed_to_approve,
                    result, error, priorIds, postVars, approveCalls >>

\* lines 280-284: the allow-list, and its names for the log
ApResolved ==
    /\ pc = "ap_resolve"
    /\ todo_names = <<>>
    /\ auto_allowed_ids' = SortedSeq(Range(resolved_ids))
    /\ \E sts \in ListingStatuses(auto_allowed_ids') :
         LET m == MapIdsToNames(cache, auto_allowed_ids', sts)
         IN  /\ faults + m.fails <= MaxFaults
             /\ faults' = faults + m.fails
             /\ cache' = m.cache
    /\ pc' = "ap_list"
    /\ UNCHANGED << remoteVars, configVars, workflowVars, attempt, run_id, monitorVars,
                    ap_run_id, todo_names, resolved_ids, pending,
                    allowed_to_approve, result, error, priorIds, postVars,
                    approveCalls, lastCall,
                    lastStatus, lookup >>

\* a slip in the tests of lines 288, 319 and 340: approve_run returns
\* whatever the listing holds
NotPending_Always(listed) == TRUE

\* `if not pending` (lines 288, 319, 340)
NotPending(listed) == listed = <<>>

\* approve_run returns True to line 492 and its frame is gone; line 493
\* sets the guard
ApReturn ==
    /\ approval_attempted' = TRUE
    /\ ok' = "True"
    /\ pc' = "m_sleep"
    /\ ap_run_id' = 0
    /\ todo_names' = <<>>
    /\ resolved_ids' = <<>>
    /\ auto_allowed_ids' = <<>>
    /\ pending' = <<>>
    /\ allowed_to_approve' = <<>>

\* the head of the outer loop (lines 287-302 and 331-336): the listing, the
\* return when it is empty, the names for the log, and the choice between
\* the approval POST and the manual wait
ApList ==
    /\ pc = "ap_list"
    /\ \E st \in ReadStatuses :
         LET listed == ListPendingDeployments(st, PendingOf(ap_run_id))
         IN  /\ lastCall' = Call("listPendingDeployments", ap_run_id)
             /\ lastStatus' = st
             /\ IF NotPending(listed)
                THEN /\ faults + Fault(st, {200}) <= MaxFaults
                     /\ faults' = faults + Fault(st, {200})
                     /\ ApReturn
                     /\ UNCHANGED cache
                ELSE \E sts \in ListingStatuses(PendingEnvIds(listed)) :
                       LET ids == PendingEnvIds(listed)
                           m == MapIdsToNames(cache, ids, sts)
                       IN  /\ faults + m.fails <= MaxFaults
                           /\ faults' = faults + m.fails
                           /\ cache' = m.cache
                           /\ pending' = listed
                           /\ allowed_to_approve' =
                                AllowedToApprove(ids, auto_allowed_ids)
                           /\ pc' = ApBranch(allowed_to_approve', repo_token)
                           /\ UNCHANGED << approval_attempted, ok, ap_run_id,
                                           todo_names, resolved_ids,
                                           auto_allowed_ids >>
    /\ UNCHANGED << remoteVars, configVars, workflowVars, attempt, run_id, run,
                    waiting_jobs, result, error, priorIds, postVars, approveCalls,
                    lookup >>

\* what the remote side keeps pending once these ids are approved
StillPending(pds, ids) ==
    SelectSeq(pds, LAMBDA pd : NormalizePD(pd).environment_id \notin Range(ids))

\* the approval POST (lines 304-329).  The API clears an accepted approval
\* at once or later (RemoteClear).
ApPost ==
    /\ pc = "ap_post"
    /\ \E st \in PostStatuses :
         /\ postCount' = postCount + 1
         /\ lastStatus' = st
         /\ lastCall' = [op |-> "approve", run |-> ap_run_id,
                         environment_ids |-> allowed_to_approve]
         /\ pc' = IF PostAccepted(st) THEN "aw_list" ELSE "ap_sleep"
         /\ IF ApiAccepted(st)
            THEN /\ acceptedCount' = acceptedCount + 1
                 /\ faults' = faults
                 /\ remotePending' \in
                      { remotePending,
                        IF ap_run_id = run_id
                        THEN StillPending(remotePending, allowed_to_approve)
                        ELSE remotePending }
            ELSE /\ faults < MaxFaults
                 /\ faults' = faults + 1
                 /\ UNCHANGED << acceptedCount, remotePending >>
    /\ UNCHANGED << runs, toCreate, createdId, remoteJobs, configVars, workflowVars,
                    attempt, run_id, monitorVars, cache, approveVars, result, error,
                    priorIds, approveCalls,
                    lookup >>

\* an outer loop that gives the approval up after a failed POST and goes
\* on to the manual wait
ApSleep_Manual ==
    /\ pc = "ap_sleep"
    /\ pc' = "mw_list"
    /\ lastCall' = Call("sleep", 0)
    /\ UNCHANGED << remoteVars, configVars, workflowVars, attempt, run_id, monitorVars,
                    cache, approveVars, result, error, priorIds, faults, postVars,
                    approveCalls, lastStatus, lookup >>

\* time.sleep at the end of an outer iteration (line 349)
ApSleep ==
    /\ pc = "ap_sleep"
    /\ pc' = "ap_list"
    /\ lastCall' = Call("sleep", 0)
    /\ UNCHANGED << remoteVars, configVars, workflowVars, attempt, run_id, monitorVars,
                    cache, approveVars, result, error, priorIds, faults, postVars,
                    approveCalls, lastStatus, lookup >>

\* a wait loop without its return statement
WaitList_NoReturn(here, sleep) ==
    /\ pc = here
    /\ \E st \in ReadStatuses :
         LET listed == ListPendingDeployments(st, PendingOf(ap_run_id))
         IN  /\ lastCall' = Call("listPendingDeployments", ap_run_id)
             /\ lastStatus' = st
             /\ faults + Fault(st, {200}) <= MaxFaults
             /\ faults' = faults + Fault(st, {200})
             /\ pending' = listed
             /\ pc' = sleep
    /\ UNCHANGED << remoteVars, configVars, workflowVars, attempt, run_id, monitorVars,
                    cache, ap_run_id, todo_names, resolved_ids,
                    auto_allowed_ids, allowed_to_approve, result, error,
                    priorIds, postVars, approveCalls, lookup >>

\* one check of a wait loop: return True on an empty listing, otherwise
\* the names for the log and on to the sleep
WaitList(here, sleep) ==
    /\ pc = here
    /\ \E st \in ReadStatuses :
         LET listed == ListPendingDeployments(st, PendingOf(ap_run_id))
         IN  /\ lastCall' = Call("listPendingDeployments", ap_run_id)
             /\ lastStatus' = st
             /\ IF NotPending(listed)
                THEN /\ faults + Fault(st, {200}) <= MaxFaults
                     /\ faults' = faults + Fault(st, {200})
                     /\ ApReturn
                     /\ UNCHANGED cache
                ELSE \E sts \in ListingStatuses(PendingEnvIds(listed)) :
                       LET m == MapIdsToNames(cache, PendingEnvIds(listed), sts)
                       IN  /\ faults + m.fails <= MaxFaults
                           /\ faults' = faults + m.fails
                           /\ cache' = m.cache
                           /\ pending' = listed
                           /\ pc' = sleep
                           /\ UNCHANGED << approval_attempted, ok, ap_run_id,
                                           todo_names, resolved_ids,
                                           auto_allowed_ids,
                                           allowed_to_approve >>
    /\ UNCHANGED << remoteVars, configVars, workflowVars, attempt, run_id, run,
                    waiting_jobs, result, error, priorIds, postVars, approveCalls,
                    lookup >>

WaitSleep(here, list) ==
    /\ pc = here
    /\ pc' = list
    /\ lastCall' = Call("sleep", 0)
    /\ UNCHANGED << remoteVars, configVars, workflowVars, attempt, run_id, monitorVars,
                    cache, approveVars, result, error, priorIds, faults, postVars,
                    approveCalls, lastStatus, lookup >>

\* the wait loop after an accepted approval (lines 317-325)
AwList == WaitList("aw_list", "aw_sleep")
\* a wait after an accepted approval that goes back to the outer loop
AwSleep_Outer == WaitSleep("aw_sleep", "ap_list")

AwSleep == WaitSleep("aw_sleep", "aw_list")

\* the manual-wait loop (lines 338-346)
MwList == WaitList("mw_list", "mw_sleep")
MwSleep == WaitSleep("mw_sleep", "mw_list")

\* ---------------------------------------------------------- the remote side
clientVars == << configVars, workflowVars, pc, attempt, run_id, monitorVars, cache,
                 approveVars, result, error, priorIds, faults, postVars,
                 approveCalls, lastCall, lastStatus, lookup >>

\* the run of an accepted dispatch appears in the run list
RemoteCreateRun ==
    /\ toCreate
    /\ \E h \in Heads :
         /\ ref \in {h[1], h[2]}
         /\ runs' = << [id |-> Len(runs) + 1, head_branch |-> h[1],
                        head_sha |-> h[2], status |-> "queued",
                        conclusion |-> "none"] >> \o runs
    /\ toCreate' = FALSE
    /\ createdId' = Len(runs) + 1
    /\ UNCHANGED << remoteJobs, remotePending, clientVars >>

\* the client holds a run id and has not finished
Monitoring == run_id # 0 /\ pc \notin {"done", "raised"}

\* a run makes progress; a completed run has neither waiting jobs nor gates
RemoteAdvance ==
    /\ \E i \in 1..Len(runs) :
         \/ /\ runs[i].status = "queued"
            /\ runs' = [runs EXCEPT ![i].status = "in_progress"]
            /\ UNCHANGED << remoteJobs, remotePending >>
         \/ /\ runs[i].status = "in_progress"
            /\ \E c \in {"success", "failure"} :
                 runs' = [runs EXCEPT ![i].status = "completed",
                                      ![i].conclusion = c]
            /\ IF runs[i].id = run_id
               THEN remoteJobs' = <<>> /\ remotePending' = <<>>
               ELSE UNCHANGED << remoteJobs, remotePending >>
    /\ UNCHANGED << toCreate, createdId, clientVars >>

\* the jobs of the monitored run change
RemoteJobs ==
    /\ Monitoring
    /\ RunById(runs, run_id).status # "completed"
    /\ remoteJobs' \in JobChoices \ {remoteJobs}
    /\ UNCHANGED << runs, toCreate, createdId, remotePending, clientVars >>

\* the monitored run reaches protected environments: a gate appears or grows
RemoteGate ==
    /\ Monitoring
    /\ RunById(runs, run_id).status # "completed"
    /\ remotePending' \in GateChoices \ {remotePending}
    /\ UNCHANGED << runs, toCreate, createdId, remoteJobs, clientVars >>

\* a pending deployment leaves the gate: a reviewer approved or rejected it,
\* or an accepted approval took effect
RemoteClear ==
    /\ remotePending # <<>>
    /\ \E i \in 1..Len(remotePending) :
         remotePending' = SubSeq(remotePending, 1, i - 1)
                          \o SubSeq(remotePending, i + 1, Len(remotePending))
    /\ UNCHANGED << runs, toCreate, createdId, remoteJobs, clientVars >>

Next ==
    \/ Dispatch \/ TwGrace \/ TwList \/ TwSleep
    \/ MGetRun \/ MCheck \/ MListJobs \/ MListPending \/ MSleep
    \/ ApResolveName \/ ApResolved \/ ApList \/ ApPost \/ ApSleep
    \/ AwList \/ AwSleep \/ MwList \/ MwSleep
    \/ RemoteCreateRun \/ RemoteAdvance \/ RemoteJobs \/ RemoteGate
    \/ RemoteClear

Spec == Init /\ [][Next]_vars

\* trigger_workflow on its own, up to its return, on longer run histories
InitResolve == InitWith({TRUE}, MaxListed)

NextResolve ==
    \/ Dispatch \/ TwGrace \/ TwList \/ TwSleep \/ RemoteCreateRun

SpecResolve == InitResolve /\ [][NextResolve]_vars

\* --------------------------------------------------- a client that keeps going
\* the steps of the client: the program is one thread that runs until it
\* returns or raises, and every request and every sleep ends
ClientNext ==
    \/ Dispatch \/ TwGrace \/ TwList \/ TwSleep
    \/ MGetRun \/ MCheck \/ MListJobs \/ MListPending \/ MSleep
    \/ ApResolveName \/ ApResolved \/ ApList \/ ApPost \/ ApSleep
    \/ AwList \/ AwSleep \/ MwList \/ MwSleep

\* the workflow has no earlier run and is dispatched on main
InitLive ==
    /\ InitWith({TRUE}, 0)
    /\ ref = "main"

\* every request is answered, and with a success status: no response
\* counts as a failure and nothing is raised
NoFailure == faults' = faults /\ pc' # "raised"

NextLive == Next /\ NoFailure

\* the client never stops between two steps; the remote side (the run's
\* progress, the reviewers) owes nothing
SpecLive == InitLive /\ [][NextLive]_vars /\ WF_vars(ClientNext /\ NoFailure)

\* ------------------------------------------ a client with or without a token
\* GitHubActionsClient works on a configuration without a repo token
\* (lines 126-131, 141-146, 302, 332); the workflow has no earlier run
InitAnyToken == InitWith(BOOLEAN, 0)

SpecAnyToken == InitAnyToken /\ [][Next]_vars

\* ------------------------------------------- the environment cache on its own
\* the ids get_environment_name_by_id is asked for; 3 is no environment
EnvIds == {1, 2, 3}

\* a client on which nothing has been called yet
InitEnvCache ==
    /\ InitWith({TRUE}, 0)
    /\ ref = "main"
    /\ ~auto_approve
    /\ configured_names = <<>>

\* one call of get_environment_id_by_name, for any name
CallGetEnvironmentIdByName ==
    /\ \E name \in Names \cup {""}, st \in ReadStatuses :
         LET r == GetEnvironmentIdByName(cache, name, st)
             f == IF r.listed THEN Fault(st, {200}) ELSE 0
         IN  /\ faults + f <= MaxFaults
             /\ faults' = faults + f
             /\ cache' = r.cache
             /\ lookup' = [name |-> name, id |-> r.id, listed |-> r.listed]
             /\ lastCall' = IF r.listed THEN Call("listEnvironments", 0)
                            ELSE lastCall
             /\ lastStatus' = IF r.listed THEN st ELSE lastStatus
    /\ UNCHANGED << remoteVars, configVars, workflowVars, pc, attempt, run_id, monitorVars,
                    approveVars, result, error, priorIds, postVars,
                    approveCalls >>

\* one call of get_environment_name_by_id, for any id
CallGetEnvironmentNameById ==
    /\ \E id \in EnvIds, st \in ReadStatuses :
         LET r == GetEnvironmentNameById(cache, id, st)
             f == IF r.listed THEN Fault(st, {200}) ELSE 0
         IN  /\ faults + f <= MaxFaults
             /\ faults' = faults + f
             /\ cache' = r.cache
             /\ lastCall' = IF r.listed THEN Call("listEnvironments", 0)
                            ELSE lastCall
             /\ lastStatus' = IF r.listed THEN st ELSE lastStatus
    /\ UNCHANGED << remoteVars, configVars, workflowVars, pc, attempt, run_id, monitorVars,
                    approveVars, result, error, priorIds, postVars,
                    approveCalls, lookup >>

NextEnvCache == CallGetEnvironmentIdByName \/ CallGetEnvironmentNameById

SpecEnvCache == InitEnvCache /\ [][NextEnvCache]_vars

\* ------------------------------------- list_pending_deployments on its own
\* what a raw record may carry as flat environment_id or nested
\* environment.id: nothing, or an id, 0 included
RawIds == {NoneVal, 0, 1, 2}
RawRecords == [flat : RawIds, nested : RawIds]

\* the responses of up to MaxRaw raw records
RawResponses == UNION { [1..n -> RawRecords] : n \in 0..MaxRaw }

\* a client on which nothing has been called yet, and a run whose pending
\* deployments are any raw records
InitNormalize ==
    /\ runs = <<>>
    /\ toCreate = FALSE
    /\ createdId = 0
    /\ remoteJobs = <<>>
    /\ remotePending \in RawResponses
    /\ ref = "main"
    /\ auto_approve = FALSE
    /\ configured_names = <<>>
    /\ repo_token = TRUE
    /\ pc = "dispatch"
    /\ attempt = 0
    /\ run_id = 0
    /\ run = NoRun
    /\ waiting_jobs = <<>>
    /\ approval_attempted = FALSE
    /\ cache = EmptyCache
    /\ ap_run_id = 0
    /\ todo_names = <<>>
    /\ resolved_ids = <<>>
    /\ auto_allowed_ids = <<>>
    /\ pending = <<>>
    /\ allowed_to_approve = <<>>
    /\ result = NoRun
    /\ error = "none"
    /\ priorIds = {}
    /\ faults = 0
    /\ postCount = 0
    /\ acceptedCount = 0
    /\ approveCalls = 0
    /\ lastCall = Call("none", 0)
    /\ lastStatus = NoneVal
    /\ lookup = NoLookup
    /\ ok = "none"
    /\ workflows = <<>>
    /\ workflow_file = NumericFile
    /\ workflow_id = NoneVal

\* one call of list_pending_deployments; pending holds what it returned
CallListPendingDeployments ==
    /\ \E st \in ReadStatuses :
         /\ faults + Fault(st, {200}) <= MaxFaults
         /\ faults' = faults + Fault(st, {200})
         /\ pending' = ListPendingDeployments(st, PendingOf(run_id))
         /\ lastCall' = Call("listPendingDeployments", run_id)
         /\ lastStatus' = st
    /\ UNCHANGED << remoteVars, configVars, workflowVars, pc, attempt, run_id, monitorVars,
                    cache, ap_run_id, todo_names, resolved_ids,
                    auto_allowed_ids, allowed_to_approve, result, error,
                    priorIds, postVars, approveCalls, lookup >>

NextNormalize == CallListPendingDeployments

SpecNormalize == InitNormalize /\ [][NextNormalize]_vars

\* ------------------------------------------------------------- properties
Matches(r, rf) == r.head_branch = rf \/ r.head_sha = rf

\* the environment ids of a normalised listing
IdsOf(pds) == { pds[i].environment_id : i \in 1..Len(pds) } \ {NoneVal, 0}

\* the ids the configured names stand for in the repository
ConfiguredIds ==
    { Environments[i].id : i \in { j \in 1..Len(Environments) :
                                    Environments[j].name \in Range(configured_names) } }

ApprovePcs == {"ap_resolve", "ap_list", "ap_post", "ap_sleep", "aw_list",
               "aw_sleep", "mw_list", "mw_sleep"}
RunOps == {"getRun", "listJobs", "listPendingDeployments", "approve"}

\* C1: the run id trigger_workflow returns is the id of the run the
\* dispatch created, never the id of a run that was in the run list before
\* the dispatch call.
C1_ResolvedRunIsNew ==
    run_id # 0 => run_id \notin priorIds

\* C2: when at least one listed run has head_branch or head_sha equal to
\* the requested ref, the resolved run is the first such run in listing
\* order, never the most-recent-run fallback.
C2_FirstMatchWins ==
    [][ (pc = "tw_list" /\ pc' = "m_get") =>
          LET L == Listing(runs)
          IN  (\E i \in 1..Len(L) : Matches(L[i], ref)) =>
                \E i \in 1..Len(L) :
                  /\ Matches(L[i], ref)
                  /\ \A j \in 1..(i - 1) : ~Matches(L[j], ref)
                  /\ run_id' = L[i].id ]_vars

\* C2 witness: the resolved run is the second entry of the listing, the
\* first one being on another ref
C2_Witness ==
    /\ pc = "m_get"
    /\ Len(runs) >= 2
    /\ run_id = runs[2].id
    /\ Matches(runs[2], ref)
    /\ ~Matches(runs[1], ref)

\* C3: when the listing request is answered with a non-empty listing and
\* no listed run matches the requested ref, the protocol returns the first
\* entry of the listing.
C3_FallbackIsFirst ==
    [][ (pc = "tw_list" /\ pc' # pc /\ faults' = faults /\ error' = "none") =>
          LET L == Listing(runs)
          IN  (L # <<>> /\ \A i \in 1..Len(L) : ~Matches(L[i], ref)) =>
                (pc' = "m_get" /\ run_id' = L[1].id) ]_vars

\* C3 witness: a run was resolved although no run of the list matches
C3_Witness ==
    /\ pc = "m_get"
    /\ runs # <<>>
    /\ \A i \in 1..Len(runs) : ~Matches(runs[i], ref)
    /\ run_id = runs[1].id

C6_PostBodyIsIntersection ==
    [][ postCount' = postCount + 1 =>
          /\ lastCall'.op = "approve"
          /\ Range(lastCall'.environment_ids)
               = IdsOf(pending) \cap Range(auto_allowed_ids)
          /\ Range(auto_allowed_ids) \subseteq ConfiguredIds
          /\ lastCall'.environment_ids # <<>>
          /\ repo_token ]_vars

\* C6 witness: A and B are pending, only A is allowed, the POST carries A
C6_Witness ==
    /\ postCount >= 1
    /\ pc \in {"aw_list", "ap_sleep"}
    /\ IdsOf(pending) = {1, 2}
    /\ auto_allowed_ids = <<1>>
    /\ lastCall.op = "approve"
    /\ lastCall.environment_ids = <<1>>

\* C7: when none of the pending ids is in the allow-list, approve_run
\* issues no POST and enters the manual-wait loop, which it leaves only
\* by returning after an empty listing, without any POST.
C7_NoneAllowedIsManual ==
    [][ /\ (pc = "ap_list" /\ pc' \in {"ap_post", "mw_list"}
            /\ IdsOf(pending') \cap Range(auto_allowed_ids) = {})
          => (pc' = "mw_list" /\ postCount' = postCount)
        /\ pc \in {"mw_list", "mw_sleep"}
          => /\ postCount' = postCount
             /\ pc' \in {"mw_list", "mw_sleep", "m_sleep"}
             /\ pc' = "m_sleep"
                  => (pc = "mw_list" /\ approval_attempted'
                      /\ lastCall' = Call("listPendingDeployments", run_id)) ]_vars

\* C7 witness: A and B are pending, neither is allowed, manual wait
C7_Witness ==
    /\ pc = "mw_sleep"
    /\ IdsOf(pending) = {1, 2}
    /\ auto_allowed_ids = <<>>
    /\ postCount = 0

\* C8: the monitor returns in the iteration whose get_run first reports
\* completed: the result is that response, which is the remote run with its
\* conclusion, and no request or sleep follows that get_run.
C8_ReturnsOnCompleted ==
    /\ run.status = "completed" => pc \in {"m_check", "done"}
    /\ pc = "done" =>
         /\ result = run
         /\ result = RunById(runs, run_id)
         /\ result.status = "completed"
         /\ lastCall = Call("getRun", run_id)

\* C8 witness: the monitor returned a failed run
C8_Witness ==
    pc = "done" /\ result.conclusion = "failure"

\* C9: approve_run is invoked at most once per run, and once it has
\* returned approval_attempted is true.
C9_ApproveOnce ==
    /\ approveCalls <= 1
    /\ (approveCalls = 1 /\ pc \notin ApprovePcs) => approval_attempted
    /\ approval_attempted => approveCalls = 1

\* C9 witness: a later monitor iteration sees waiting jobs again
C9_Witness ==
    /\ approval_attempted
    /\ approveCalls = 1
    /\ auto_approve
    /\ pc = "m_pending"
    /\ waiting_jobs # <<>>

\* C10: once resolved, the run id never changes, every request about a
\* run carries it, and the run list is not requested again.
C10_RunIdFixed ==
    [][ run_id # 0 =>
          /\ run_id' = run_id
          /\ lastCall'.op = "listRuns" => pc' = pc
          /\ lastCall'.op \in RunOps => lastCall'.run = run_id
          /\ postCount' # postCount => lastCall' = [op |-> "approve",
                 run |-> run_id, environment_ids |-> allowed_to_approve] ]_vars

\* C10 witness: the approval POST went to the resolved run
C10_Witness ==
    run_id # 0 /\ lastCall.op = "approve" /\ lastCall.run = run_id

\* the three places where approve_run tests a listing and may return
ApListPcs == {"ap_list", "aw_list", "mw_list"}

\* C11: approve_run never returns false and never raises; it returns
\* (true) only in a step that lists the pending deployments and gets an
\* empty sequence (nothing pending, or a failed listing turned into []);
\* every other step of approve_run stays inside approve_run.
C11_ReturnsOnlyOnEmptyListing ==
    [][ /\ ok' \in {"none", "True"}
        /\ pc \in ApprovePcs => (error' = "none" /\ pc' \in ApprovePcs \cup {"m_sleep"})
        /\ (pc \in ApprovePcs /\ pc' \notin ApprovePcs) =>
             /\ pc \in ApListPcs
             /\ ok' = "True"
             /\ lastCall' = Call("listPendingDeployments", ap_run_id)
             /\ ListPendingDeployments(lastStatus', PendingOf(ap_run_id)) = <<>>
        /\ (pc \in ApListPcs /\ pc' # pc
            /\ ListPendingDeployments(lastStatus', PendingOf(ap_run_id)) # <<>>)
             => (pc' \in ApprovePcs /\ ok' = ok) ]_vars

\* C11 witness: approve_run returned true from the wait after an accepted
\* approval POST
C11_Witness ==
    /\ ok = "True" /\ acceptedCount = 1 /\ pc = "m_sleep"
    /\ lastCall.op = "listPendingDeployments"

BestEffortReads == {"listRuns", "listJobs", "listPendingDeployments",
                    "listEnvironments"}

\* C13: a failure of a best-effort read (run listing, job listing,
\* pending-deployment listing, environment listing) never propagates to
\* the caller: no execution ends in an exception of such a read.
C13_ReadFailureNeverPropagates ==
    lastCall.op \in BestEffortReads => (pc # "raised" /\ error = "none")

\* C14: only a dispatch answered 201 or 204 is followed by the grace
\* sleep, the run listing and the monitor; on every other response
\* trigger_workflow raises.
C14_OnlyAcknowledgedContinues ==
    (lastCall.op = "dispatch" /\ lastStatus \notin {201, 204}) => pc = "raised"

\* C15: a get_run answered with a failure status (or not answered at all)
\* ends trigger_and_wait in that iteration with the exception; the run
\* last seen is not used again, nothing is returned, and no request or
\* sleep follows.
C15_GetRunFailureEnds ==
    [][ /\ (pc = "m_get" /\ pc' # pc /\ lastStatus' \notin 200..299)
             => /\ pc' = "raised"
                /\ error' \in {"HTTPError", "RequestException"}
                /\ lastCall' = Call("getRun", run_id)
                /\ result' = NoRun
        /\ pc = "raised"
             => (pc' = "raised" /\ lastCall' = lastCall /\ result' = NoRun
                 /\ error' = error) ]_vars

\* C15 witness: the get_run of a later iteration, after approve_run has
\* returned, was answered 500
C15_Witness ==
    /\ pc = "raised"
    /\ error = "HTTPError"
    /\ lastCall = Call("getRun", run_id)
    /\ lastStatus = 500
    /\ approval_attempted

\* C16: a get_environment_id_by_name call leaves its result in the cache
\* under the name, found or not, a cached name stays cached, and a call
\* for a cached name requests no listing and returns the cached value.
C16_SecondCallHitsCache ==
    [][ \A n \in Names :
          /\ cache[n] # NotCached => cache'[n] # NotCached
          /\ (lookup' # lookup /\ lookup'.name = n) =>
               /\ cache'[n] # NotCached
               /\ cache'[n] = lookup'.id
               /\ cache[n] # NotCached =>
                    /\ ~lookup'.listed
                    /\ lookup'.id = cache[n]
                    /\ lastCall' = lastCall
                    /\ cache' = cache ]_vars

\* C16 witness: the second call for a name that is no environment was
\* answered from the cache
C16_Witness ==
    /\ lookup = [name |-> "X", id |-> NoneVal, listed |-> FALSE]
    /\ cache["X"] = NoneVal

\* C17: after a get_environment_id_by_name call that missed the cache and
\* whose listing succeeded, the cache holds every (name, id) pair of the
\* listing.
C17_CacheHoldsWholeListing ==
    [][ (lookup' # lookup /\ lookup'.listed /\ lastStatus' = 200) =>
          \A i \in 1..Len(Environments) :
            cache'[Environments[i].name] = Environments[i].id ]_vars

\* C18: every raw record that carries a flat environment_id or a nested
\* environment.id comes back from list_pending_deployments with an
\* environment_id: the flat value when there is one, the nested id
\* otherwise, for every id, 0 included.
C18_NormalizedCarriesId ==
    (lastCall.op = "listPendingDeployments" /\ lastStatus = 200) =>
      /\ Len(pending) = Len(remotePending)
      /\ \A i \in 1..Len(remotePending) :
           LET raw == remotePending[i]
           IN  (raw.flat # NoneVal \/ raw.nested # NoneVal) =>
                 /\ pending[i].environment_id # NoneVal
                 /\ pending[i].environment_id =
                      IF raw.flat # NoneVal THEN raw.flat ELSE raw.nested

PostPcs == {"ap_post", "ap_sleep", "aw_list", "aw_sleep"}

\* C19: without a repo token approve_run issues no approval POST, whatever
\* is pending and allowed; from the head of its outer loop it either
\* returns or enters the manual-wait loop.
C19_NoTokenNoPost ==
    [][ ~repo_token =>
          /\ postCount' = 0
          /\ lastCall'.op # "approve"
          /\ pc' \notin PostPcs
          /\ (pc = "ap_list" /\ pc' # pc) => pc' \in {"m_sleep", "mw_list"} ]_vars

\* C19 witness: an allowed environment is pending, no token, manual wait
C19_Witness ==
    /\ ~repo_token
    /\ pc = "mw_sleep"
    /\ allowed_to_approve = <<1>>
    /\ auto_allowed_ids = <<1>>
    /\ postCount = 0

\* C20: the name loop never ends approve_run: every configured name is
\* looked up, the allow-list is exactly the ids the names resolved to, a
\* name without an id left out, and an approval POST carries only ids
\* of environments whose names are configured.
C20_UnresolvedNameIsLeftOut ==
    [][ /\ pc = "ap_resolve" =>
             (error' = "none" /\ pc' \in {"ap_resolve", "ap_list"})
        /\ (pc = "ap_resolve" /\ pc' = "ap_list") =>
             /\ \A n \in Range(configured_names) : cache[n] # NotCached
             /\ Range(auto_allowed_ids')
                  = { cache[n] : n \in Range(configured_names) } \ {NoneVal, 0}
        /\ postCount' = postCount + 1 =>
             Range(lastCall'.environment_ids) \subseteq
               { FoundId(Environments, n) : n \in Range(configured_names) }
                 \ {NoneVal} ]_vars

\* C20 witness: X is no environment, A is; the POST carries A's id
C20_Witness ==
    /\ configured_names = <<"X", "A">>
    /\ cache["X"] = NoneVal
    /\ postCount = 1
    /\ lastCall.op = "approve"
    /\ lastCall.environment_ids = <<1>>

\* C21: between the acknowledged dispatch and the first run listing lies
\* exactly the grace sleep: the step after the dispatch is that sleep, and
\* every run listing comes right after a sleep.
C21_GraceSleepBeforeListing ==
    [][ /\ (pc = "dispatch" /\ pc' # pc) => pc' \in {"tw_grace", "raised"}
        /\ (pc = "tw_grace" /\ pc' # pc) =>
             /\ lastCall.op = "dispatch"
             /\ lastCall' = Call("sleep", 0)
             /\ pc' = "tw_list"
        /\ lastCall.op = "dispatch" => lastCall'.op \in {"dispatch", "sleep"}
        /\ (pc = "tw_list" /\ pc' # pc) =>
             (lastCall.op = "sleep" /\ lastCall'.op = "listRuns") ]_vars

\* C21 witness: the first listing is due, after the grace sleep, and the
\* run of the dispatch has not appeared yet
C21_Witness ==
    /\ pc = "tw_list"
    /\ attempt = 0
    /\ lastCall = Call("sleep", 0)
    /\ lastStatus \in {201, 204}
    /\ toCreate

\* C22: in the wait loop after an accepted approval and in the manual-wait
\* loop, every check of the pending deployments comes right after a
\* sleep, the first check of the loop included.
C22_SleepBeforeEveryWaitCheck ==
    [][ (pc \in {"aw_list", "mw_list"} /\ pc' # pc) =>
          lastCall = Call("sleep", 0) ]_vars

MonitorPcs == {"m_get", "m_check", "m_jobs", "m_pending", "m_sleep"}

\* the monitor is polling, environment A is pending for the monitored
\* run, its name is configured and has not failed to resolve, the policy
\* can approve it, and no approval has been posted yet
APendingAndAllowed ==
    /\ pc \in MonitorPcs
    /\ postCount = 0
    /\ auto_approve
    /\ repo_token
    /\ "A" \in Range(configured_names)
    /\ cache["A"] # NoneVal
    /\ RawA \in Range(remotePending)

\* C23: whenever the monitor polls while an allow-listed environment is
\* pending for the run and the policy can approve it, an approval POST
\* with its id is eventually issued, unless it stops being pending first
\* or the execution ends; what the monitor saw before does not matter.
C23_AllowedPendingIsApproved ==
    APendingAndAllowed ~>
      \/ (lastCall.op = "approve" /\ 1 \in Range(lastCall.environment_ids))
      \/ ~APendingAndAllowed

\* the run the client monitors has completed
RunCompleted ==
    run_id # 0 /\ RunById(runs, run_id).status = "completed"

\* C27: once the monitored run is completed, trigger_and_wait eventually
\* returns it, wherever the client is at that moment, unless get_run
\* fails.
C27_CompletedRunIsReturned ==
    RunCompleted ~>
      \/ (pc = "done" /\ result = RunById(runs, run_id))
      \/ pc = "raised"

\* C27 witness: the run completed while approve_run sleeps in the wait
\* loop after an accepted approval
C27_Witness ==
    /\ RunCompleted
    /\ pc = "aw_sleep"
    /\ acceptedCount = 1
    /\ remotePending = <<>>

\* C24: approve_run returns only when the run has no pending deployment
\* on the remote side at the moment of its last check, failed listing
\* requests included.
C24_ReturnMeansCleared ==
    [][ (pc \in ApListPcs /\ pc' = "m_sleep") =>
          PendingOf(ap_run_id) = <<>> ]_vars

\* C25: with auto_approve off approve_run is never called and no approval
\* POST is issued, whatever the monitor sees and whatever names are
\* configured.
C25_DisabledNeverApproves ==
    ~auto_approve =>
      /\ approveCalls = 0
      /\ postCount = 0
      /\ ~approval_attempted
      /\ ok = "none"
      /\ pc \notin ApprovePcs
      /\ lastCall.op \notin {"approve", "listEnvironments"}

\* C25 witness: the monitor saw waiting jobs and pending deployments for
\* configured environments and went on to its sleep
C25_Witness ==
    /\ ~auto_approve
    /\ configured_names = <<"A", "B">>
    /\ pc = "m_sleep"
    /\ lastCall = Call("listPendingDeployments", run_id)
    /\ lastStatus = 200
    /\ remotePending = <<RawA, RawB>>
    /\ remoteJobs = <<JobWaiting>>

WaitPcs == {"aw_list", "aw_sleep", "mw_list", "mw_sleep"}

\* C26: from the moment approve_run is in one of its two wait loops, and
\* after it has returned, no approval POST is issued any more; a wait
\* loop is left only by the return of true.
C26_NoPostOnceWaiting ==
    [][ /\ (pc \in WaitPcs \/ approval_attempted) =>
             (postCount' = postCount /\ pc' \notin {"ap_list", "ap_post", "ap_sleep"})
        /\ (pc \in WaitPcs /\ pc' \notin WaitPcs) =>
             (pc' = "m_sleep" /\ ok' = "True" /\ approval_attempted')
        /\ (pc = "aw_list" /\ pc' # "m_sleep") => pc' \in {"aw_list", "aw_sleep"}
        /\ (pc = "mw_list" /\ pc' # "m_sleep") => pc' \in {"mw_list", "mw_sleep"}
      ]_vars

\* C26 witness: A was approved; B, allowed as well, is pending now and the
\* wait loop goes on without a POST for it
C26_Witness ==
    /\ pc = "aw_sleep"
    /\ acceptedCount = 1
    /\ postCount = 1
    /\ auto_allowed_ids = <<1, 2>>
    /\ allowed_to_approve = <<1>>
    /\ IdsOf(pending) = {2}

\* C28: a get_environment_id_by_name call whose listing fails stores None
\* under the name; while None is stored, every call for the name returns
\* None without a listing; None is replaced only by the id that a
\* successful listing of get_environment_name_by_id brings; a stored id
\* is never replaced.
C28_FailedListingIsCached ==
    [][ \A n \in Names :
          /\ (lookup' # lookup /\ lookup'.name = n /\ lookup'.listed
              /\ lastStatus' # 200)
               => (cache'[n] = NoneVal /\ lookup'.id = NoneVal)
          /\ (cache[n] = NoneVal /\ lookup' # lookup /\ lookup'.name = n)
               => /\ lookup'.id = NoneVal
                  /\ ~lookup'.listed
                  /\ lastCall' = lastCall
                  /\ cache' = cache
          /\ (cache[n] = NoneVal /\ cache'[n] # NoneVal)
               => /\ lookup' = lookup
                  /\ lastCall' = Call("listEnvironments", 0)
                  /\ lastStatus' = 200
                  /\ cache'[n] = FoundId(Environments, n)
          /\ cache[n] \notin {NoneVal, NotCached} => cache'[n] = cache[n] ]_vars

\* C28 witness: the listing for A failed, and the next call for A was
\* answered None from the cache
C28_Witness ==
    /\ faults = 1
    /\ cache["A"] = NoneVal
    /\ lookup = [name |-> "A", id |-> NoneVal, listed |-> FALSE]

\* ------------------------------------------- workflow resolution on its own
\* a workflow configured by file name, in a repository with any workflows
InitWorkflowId ==
    /\ InitBase({TRUE}, 0)
    /\ ref = "main"
    /\ ~auto_approve
    /\ configured_names = <<>>
    /\ workflows \in WorkflowListings
    /\ workflow_file \in FileNames
    /\ workflow_id = NoneVal

\* trigger_workflow, lines 169-172: a file name is resolved to an id by
\* get_workflow_id_by_filename; a transport exception propagates, and an
\* id of None raises RuntimeError
TwResolve ==
    /\ pc = "dispatch"
    /\ ~IsDigit(workflow_file)
    /\ workflow_id = NoneVal
    /\ \E st \in ReadStatuses :
         LET id == GetWorkflowIdByFilename(st, workflows, workflow_file)
         IN  /\ faults + Fault(st, {200}) <= MaxFaults
             /\ faults' = faults + Fault(st, {200})
             /\ lastCall' = Call("listWorkflows", 0)
             /\ lastStatus' = st
             /\ IF st = ExcStatus
                THEN /\ error' = Raised(st)
                     /\ pc' = "raised"
                     /\ workflow_id' = workflow_id
                ELSE IF ~Truthy(id)
                THEN /\ error' = "RuntimeError"
                     /\ pc' = "raised"
                     /\ workflow_id' = id
                ELSE /\ error' = error
                     /\ pc' = pc
                     /\ workflow_id' = id
    /\ UNCHANGED << remoteVars, configVars, workflows, workflow_file, attempt,
                    run_id, monitorVars, cache, approveVars, result,
                    priorIds, postVars, approveCalls, lookup >>

NextWorkflowId == TwResolve \/ Dispatch

SpecWorkflowId == InitWorkflowId /\ [][NextWorkflowId]_vars

\* the part of a path after its last "/"
FinalComponent(path) ==
    LET slashes == { i \in 1..Len(path) : path[i] = "/" }
        from == IF slashes = {} THEN 1
                ELSE 1 + CHOOSE i \in slashes : \A j \in slashes : j <= i
    IN  SubSeq(path, from, Len(path))

\* the listed workflows whose file has exactly the given name
NamedExactly(wfs, file) ==
    { i \in 1..Len(wfs) : FinalComponent(wfs[i].path) = file }

\* C29: get_workflow_id_by_filename(file) returns the id of the first
\* listed workflow whose final path component equals file, and absent when
\* no listed workflow has that file name or the listing fails; a workflow
\* whose file name merely ends with the given string is not selected.
\* The code compares with str.endswith, so with w/ba listed before w/a the
\* file name a resolves to the id of w/ba.
C29_ExactFileNameSelected ==
    (lastCall.op = "listWorkflows" /\ lastStatus # ExcStatus) =>
        workflow_id =
            IF lastStatus = 200 /\ NamedExactly(workflows, workflow_file) # {}
            THEN workflows[Min(NamedExactly(workflows, workflow_file))].id
            ELSE NoneVal

====
